---- MODULE Spec2Model ----
(***************************************************************************)
(* Model of scylla.py: a supervisor (main) that, for each project, spawns  *)
(* one worker process per compiler (builder_wrapper / cmake_builder), each *)
(* worker running a pipeline of shell steps through run_command, the last  *)
(* step under a watchdog process (watch_process); the supervisor drains    *)
(* the shared queue of progress and result messages, replays logs, joins   *)
(* the workers and exits.                                                  *)
(***************************************************************************)
EXTENDS Integers, Sequences, FiniteSets, TLC

\* ---------------------------------------------------------------- bounds
NumCompilers == 2
NumProjects == 1
MaxRetcode == 1
\* messages in flight on the shared queue (the queue itself is unbounded)
MaxQueue == 3
\* lines of a replayed output and words of a line, where the output is drawn
MaxLines == 2
MaxWords == 2

\* ------------------------------------------------------ program constants
KILL_TIMEOUT_S == 3
NO_TIMEOUT == -1

COLOR_DEFAULT == 7
COLOR_RED == 12
COLOR_YELLOW == 14

MT_PROGRESS == "progress"
MT_RESULT == "result"

Compilers == 1..NumCompilers
Projects == 1..NumProjects
\* exit codes a step's command can end with by itself
RetCodes == 0..MaxRetcode
\* process.returncode after process.kill(): the program runs on Windows only
\* (print_colored goes through ctypes.windll), where kill is
\* TerminateProcess(handle, 1)
KILL_RETURNCODE == 1

VARIABLES
    clean,      \* args.clean
    verbose,    \* args.verbose
    fatal,      \* args.fatal
    spc,        \* position of the supervisor in main / __main__
    project,    \* index of the project the outer loop of main is at
    processes,  \* main: processes (the compilers spawned, in spawn order)
    queue,      \* main: queue (shared by the workers of the project)
    finished,   \* main: finished
    stderrs,    \* main: stderrs
    replayed,   \* the outputs replayed: per buffered output, the lines printed
    console,    \* the lines print_colored has written
    exitCode,   \* the exit code of the program, -1 while it runs
    wpc,        \* position of each worker process
    step,       \* cmake_builder: i + 1 of the loop over commands
    success,    \* cmake_builder: success
    log,        \* content of each compiler's log file
    executed,   \* the steps whose command each worker has started, in order
    retcodes,   \* the retcode run_command returned for each finished step
    proc,       \* the subprocess.Popen of the worker's current step
    watchdog,   \* the watchdog process of the worker's current step
    wdq,        \* run_command: queue (from the watchdog to the worker)
    killed,     \* whether the watchdog has killed a command of the worker
    osEnviron,  \* os.environ of the supervisor process
    wenv        \* args.environ of each worker, as pickled at process.start()

vars == << clean, verbose, fatal, spc, project, processes, queue, finished,
           stderrs, replayed, console, exitCode, wpc, step, success, log,
           executed, retcodes, proc, watchdog, wdq, killed, osEnviron,
           wenv >>

supVars == << spc, project, processes, finished, stderrs, replayed, exitCode >>
flagVars == << clean, verbose, fatal >>
workerVars == << wpc, step, success, log, executed, retcodes >>
childVars == << proc, watchdog, wdq >>
envVars == << osEnviron, wenv >>

\* ---------------------------------------------------------- environment
\* the variables a compiler's "environ" of the config can set: one name all
\* compilers set (each to its own value) and one name of its own each
SharedName == 0
EnvNames == {SharedName} \cup Compilers

\* an environment: PATH as the sequence of its entries (an entry being the
\* sequence of directory names written without a separator in between),
\* and the value of each variable (0: not set)
BaseEnviron ==
    [path |-> << << "base" >> >>, vars |-> [n \in EnvNames |-> 0]]

\* main: build_system.path + compiler.path, through normalize_paths
ToolchainPath(w) == << "cmake", w >>

\* config: compiler.environ
CompilerEnviron(w) == [n \in {SharedName, w} |-> w]

\* main: os.pathsep.join(path) + environ['PATH']: the directories are
\* joined with the separator and the old value follows the last of them
\* directly
PrependPath(path, old) ==
    [k \in 1..(Len(path) - 1) |-> << path[k] >>]
    \o << << path[Len(path)] >> \o Head(old) >>
    \o Tail(old)

\* main: environ = os.environ (the same object), then the PATH and the
\* variables of the compiler are written into it
SetEnviron(env, w) ==
    [path |-> PrependPath(ToolchainPath(w), env.path),
     vars |-> [n \in EnvNames |->
                 IF n \in DOMAIN CompilerEnviron(w)
                 THEN CompilerEnviron(w)[n] ELSE env.vars[n]]]

\* ------------------------------------------------------------- pipeline
Command(status, isFatal, timeout) ==
    [status |-> status, fatal |-> isFatal, timeout |-> timeout]

\* cmake_builder: the commands list
Commands(withClean) ==
    (IF withClean THEN << Command("Cleaning", FALSE, NO_TIMEOUT) >> ELSE << >>)
    \o << Command("Running CMake", TRUE, NO_TIMEOUT),
          Command("Building", TRUE, NO_TIMEOUT),
          Command("Testing", TRUE, KILL_TIMEOUT_S) >>

CurrentCommand(w) == Commands(clean)[step[w]]

\* open(log, 'w') followed by the command writing its output to the file:
\* a log is a sequence of lines, a line a sequence of words, and the output
\* of a step is taken to be one line that names the step
OpenLog(old, status) == << << status >> >>

NoProc == [state |-> "none", code |-> 0]
NoWatchdog == [state |-> "none", ticks |-> 0]

\* the worker process is alive and inside builder_wrapper
WorkerRunning(w) == wpc[w] \in {"ready", "running", "result"}
\* the worker process has ended
WorkerEnded(w) == wpc[w] \in {"done", "crashed", "terminated"}

Spawned == {processes[k] : k \in 1..Len(processes)}

\* the run is followed up to the exit of the supervisor process
Live == spc # "exited"

\* ----------------------------------------------------------------- Init
Init ==
    /\ clean \in BOOLEAN
    /\ verbose \in BOOLEAN
    /\ fatal \in BOOLEAN
    /\ spc = "start"
    /\ project = 1
    /\ processes = << >>
    /\ queue = << >>
    /\ finished = 0
    /\ stderrs = << >>
    /\ replayed = << >>
    /\ console = {}
    /\ exitCode = -1
    /\ wpc = [w \in Compilers |-> "idle"]
    /\ step = [w \in Compilers |-> 1]
    /\ success = [w \in Compilers |-> TRUE]
    /\ log = [w \in Compilers |-> << >>]
    /\ executed = [w \in Compilers |-> << >>]
    /\ retcodes = [w \in Compilers |-> << >>]
    /\ proc = [w \in Compilers |-> NoProc]
    /\ watchdog = [w \in Compilers |-> NoWatchdog]
    /\ wdq = [w \in Compilers |-> << >>]
    /\ killed = [w \in Compilers |-> FALSE]
    /\ osEnviron = BaseEnviron
    /\ wenv = [w \in Compilers |-> BaseEnviron]

\* ------------------------------------------------------------- messages
\* mutant: the number of steps is sent as the step number
ProgressMsgCountAsStep(w, i, n, status) ==
    [id |-> w, type |-> MT_PROGRESS, step |-> n, steps_count |-> n,
     data |-> status, success |-> TRUE, output |-> << >>]

\* cmake_builder: queue.put(Message(id_, MT_PROGRESS, ...))
ProgressMsg(w, i, n, status) ==
    [id |-> w, type |-> MT_PROGRESS, step |-> i, steps_count |-> n,
     data |-> status, success |-> TRUE, output |-> << >>]

\* cmake_builder: queue.put(Message(id_, MT_RESULT, ...))
ResultMsg(w, ok, output) ==
    [id |-> w, type |-> MT_RESULT, step |-> 0, steps_count |-> 0,
     data |-> "", success |-> ok, output |-> output]

\* a line written by print_colored: who wrote it, during which project
Line(by, w, text, n) ==
    [by |-> by, project |-> project, id |-> w, text |-> text, step |-> n]

\* ---------------------------------------------------------------- worker
\* cmake_builder, top of the loop body: put the progress message, then
\* run_command up to the start of the command (directly, or through the
\* watchdog process, which opens the log and starts the command)
StartStep(w) ==
    LET cmd == CurrentCommand(w) IN
    /\ Live
    /\ wpc[w] = "ready"
    /\ Len(queue) < MaxQueue
    /\ queue' = Append(queue,
                       ProgressMsg(w, step[w], Len(Commands(clean)), cmd.status))
    /\ log' = [log EXCEPT ![w] = OpenLog(log[w], cmd.status)]
    /\ proc' = [proc EXCEPT ![w] = [state |-> "running", code |-> 0]]
    /\ watchdog' = [watchdog EXCEPT ![w] =
                       IF cmd.timeout < 0 THEN NoWatchdog
                       ELSE [state |-> "polling", ticks |-> 0]]
    /\ wdq' = [wdq EXCEPT ![w] = << >>]
    /\ executed' = [executed EXCEPT ![w] = Append(executed[w], step[w])]
    /\ wpc' = [wpc EXCEPT ![w] = "running"]
    /\ UNCHANGED << flagVars, envVars, killed, supVars, console, step, success, retcodes >>

\* the command of a step run under the watchdog ends by itself with exit
\* code c
ProcExit(w, c) ==
    /\ Live
    /\ watchdog[w].state = "polling"
    /\ proc[w].state = "running"
    /\ proc' = [proc EXCEPT ![w] = [state |-> "exited", code |-> c]]
    /\ UNCHANGED << flagVars, envVars, killed, supVars, queue, console, workerVars, watchdog, wdq >>

\* mutant: the loop runs one iteration less (range(1, timeout))
PollAgainShort(t, timeout) == t < timeout - 1

\* watch_process: the loop runs another iteration (the for has not run out)
PollAgain(t, timeout) == t < timeout

\* watch_process: one iteration of the poll loop that finds the command
\* still running and sleeps a second
WdSleep(w) ==
    /\ Live
    /\ watchdog[w].state = "polling"
    /\ proc[w].state = "running"
    /\ PollAgain(watchdog[w].ticks, CurrentCommand(w).timeout)
    /\ watchdog' = [watchdog EXCEPT ![w].ticks = @ + 1]
    /\ UNCHANGED << flagVars, envVars, killed, supVars, queue, console, workerVars, proc, wdq >>

\* watch_process: the loop is over and the command still runs: kill, wait
WdKill(w) ==
    /\ Live
    /\ watchdog[w].state = "polling"
    /\ proc[w].state = "running"
    /\ ~PollAgain(watchdog[w].ticks, CurrentCommand(w).timeout)
    /\ proc' = [proc EXCEPT ![w] = [state |-> "killed", code |-> KILL_RETURNCODE]]
    /\ killed' = [killed EXCEPT ![w] = TRUE]
    /\ UNCHANGED << flagVars, envVars, supVars, queue, console, workerVars, watchdog, wdq >>

\* mutant: the watchdog reports a failure whatever the command returned
ReturnCodeAlwaysFailure(p) == KILL_RETURNCODE

\* watch_process: process.returncode
ReturnCode(p) == p.code

\* mutant: the watchdog reports without waiting for the end of the command
ProcessGoneAlways(p) == TRUE

\* watch_process: process.poll() is not None in the loop and after it, or
\* the kill and the wait are done
ProcessGone(p) == p.state \in {"exited", "killed"}

\* watch_process: the command is gone (the remaining iterations of the loop
\* do not sleep): queue.put(process.returncode)
WdPut(w) ==
    /\ Live
    /\ watchdog[w].state = "polling"
    /\ ProcessGone(proc[w])
    /\ wdq' = [wdq EXCEPT ![w] = << ReturnCode(proc[w]) >>]
    /\ watchdog' = [watchdog EXCEPT ![w].state = "done"]
    /\ UNCHANGED << flagVars, envVars, killed, supVars, queue, console, workerVars, proc >>

\* mutant: the fatal flag is read the wrong way round
IsFailureNonFatalOnly(retcode, cmd) == retcode # 0 /\ ~cmd.fatal

\* mutant: a failure counts only while no other worker has failed
IsFailureFirstOnly(retcode, cmd) ==
    retcode # 0 /\ cmd.fatal /\ \A v \in Compilers : success[v]

\* mutant: the fatal flag is not read
IsFailureAnyStep(retcode, cmd) == retcode # 0

\* cmake_builder: if retcode and command.fatal
IsFailure(retcode, cmd) == retcode # 0 /\ cmd.fatal

\* cmake_builder: what follows run_command in the loop body, given the
\* retcode it returned: the fatal check, and the next step or the end
AfterStep(w, retcode) ==
    LET failed == IsFailure(retcode, CurrentCommand(w))
        last == step[w] = Len(Commands(clean))
    IN
    /\ retcodes' = [retcodes EXCEPT ![w] = Append(retcodes[w], retcode)]
    /\ success' = [success EXCEPT ![w] = IF failed THEN FALSE ELSE success[w]]
    /\ wpc' = [wpc EXCEPT ![w] = IF failed \/ last THEN "result" ELSE "ready"]
    /\ step' = [step EXCEPT ![w] = IF failed \/ last THEN step[w] ELSE step[w] + 1]
    /\ proc' = [proc EXCEPT ![w] = NoProc]
    /\ watchdog' = [watchdog EXCEPT ![w] = NoWatchdog]
    /\ wdq' = [wdq EXCEPT ![w] = << >>]

\* run_command without a deadline: the command ends with exit code c,
\* process.wait() returns and the retcode goes back to cmake_builder
WaitReturns(w, c) ==
    /\ Live
    /\ wpc[w] = "running"
    /\ CurrentCommand(w).timeout < 0
    /\ proc[w].state = "running"
    /\ AfterStep(w, c)
    /\ UNCHANGED << flagVars, envVars, killed, supVars, queue, console, log, executed >>

\* run_command: if retcode: print_colored(... Killed by watchdog ...)
Notice(retcode) == retcode # 0

\* run_command with a deadline: queue.get() returns what the watchdog put,
\* the notice is printed, and the retcode goes back to cmake_builder
WatchdogReturns(w) ==
    LET retcode == Head(wdq[w]) IN
    /\ Live
    /\ wpc[w] = "running"
    /\ CurrentCommand(w).timeout >= 0
    /\ wdq[w] # << >>
    /\ console' = IF Notice(retcode)
                  THEN console \cup {Line("worker", w, "Killed by watchdog", step[w])}
                  ELSE console
    /\ AfterStep(w, retcode)
    /\ UNCHANGED << flagVars, envVars, killed, supVars, queue, log, executed >>

\* cmake_builder: the final queue.put of the result with the log read back
PutResult(w) ==
    /\ Live
    /\ wpc[w] = "result"
    /\ Len(queue) < MaxQueue
    /\ queue' = Append(queue, ResultMsg(w, success[w], log[w]))
    /\ wpc' = [wpc EXCEPT ![w] = "done"]
    /\ UNCHANGED << flagVars, envVars, killed, supVars, console, step, success, log, executed,
                    retcodes, childVars >>

\* builder_wrapper: a KeyboardInterrupt raised inside the builder is
\* swallowed and the worker process ends without a result message
WorkerInterrupt(w) ==
    /\ Live
    /\ WorkerRunning(w)
    /\ wpc' = [wpc EXCEPT ![w] = "crashed"]
    /\ UNCHANGED << flagVars, envVars, killed, supVars, queue, console, step, success, log,
                    executed, retcodes, childVars >>

\* ------------------------------------------------------------ supervisor
\* main: top of the loop over projects; the build system of the project is
\* known (the scassert passes) and a fresh queue is made
StartProject ==
    /\ spc = "start"
    /\ spc' = "spawn"
    /\ queue' = << >>
    /\ processes' = << >>
    /\ UNCHANGED << flagVars, envVars, killed, project, finished, stderrs, replayed, exitCode,
                    console, workerVars, childVars >>

\* a ScyllaError (invalid config file, unknown build system, a directory of
\* a path that does not exist) reaches __main__: message, sys.exit(1)
ConfigError ==
    /\ spc \in {"start", "spawn"}
    /\ spc' = "exited"
    /\ exitCode' = 1
    /\ console' = console \cup {Line("supervisor", 0, "ScyllaError", 0)}
    /\ UNCHANGED << flagVars, envVars, killed, project, processes, queue, finished, stderrs,
                    replayed, workerVars, childVars >>

\* a KeyboardInterrupt reaches __main__: message, sys.exit(1)
SupInterrupt ==
    /\ spc # "exited"
    /\ spc' = "exited"
    /\ exitCode' = 1
    /\ console' = console \cup {Line("supervisor", 0, "Interrupted by user", 0)}
    /\ UNCHANGED << flagVars, envVars, killed, project, processes, queue, finished, stderrs,
                    replayed, workerVars, childVars >>

\* main: one iteration of the loop over the compilers: the worker process
\* of the next compiler is created and started; after the last one,
\* finished and stderrs are initialised and the drain loop is entered
SpawnWorker ==
    LET w == Len(processes) + 1 IN
    /\ spc = "spawn"
    /\ w \in Compilers
    /\ processes' = Append(processes, w)
    /\ wpc' = [wpc EXCEPT ![w] = "ready"]
    /\ step' = [step EXCEPT ![w] = 1]
    /\ success' = [success EXCEPT ![w] = TRUE]
    /\ executed' = [executed EXCEPT ![w] = << >>]
    /\ retcodes' = [retcodes EXCEPT ![w] = << >>]
    /\ proc' = [proc EXCEPT ![w] = NoProc]
    /\ watchdog' = [watchdog EXCEPT ![w] = NoWatchdog]
    /\ wdq' = [wdq EXCEPT ![w] = << >>]
    /\ killed' = [killed EXCEPT ![w] = FALSE]
    /\ osEnviron' = SetEnviron(osEnviron, w)
    /\ wenv' = [wenv EXCEPT ![w] = SetEnviron(osEnviron, w)]
    /\ IF w = NumCompilers
       THEN /\ spc' = "drain"
            /\ finished' = 0
            /\ stderrs' = << >>
       ELSE UNCHANGED << spc, finished, stderrs >>
    /\ UNCHANGED << flagVars, project, queue, replayed, exitCode, console, log >>

\* mutant: the supervisor cancels on a failure whatever args.fatal says
FailFastAlways(message, fatalFlag) == ~message.success

\* main: if not message.success ... if args.fatal
FailFast(message, fatalFlag) == ~message.success /\ fatalFlag

\* mutant: the supervisor leaves the loop without terminating the workers
TerminateNone(pcs) == pcs

\* main: for process in processes: process.terminate(); process.join()
TerminateAll(pcs) ==
    [w \in Compilers |->
        IF w \in Spawned /\ pcs[w] \in {"ready", "running", "result"}
        THEN "terminated" ELSE pcs[w]]

\* mutant: the verbose flag is not read
KeepOutputFailuresOnly(message, verboseFlag) == ~message.success

\* main: if not message.success or args.verbose
KeepOutput(message, verboseFlag) == ~message.success \/ verboseFlag

\* main: the while condition of the drain loop
DrainMore(n, procs) == n < Len(procs)

\* main: one iteration of the drain loop: queue.get() and the handling of
\* the message, up to the next evaluation of the while condition
Drain ==
    LET message == Head(queue) IN
    /\ spc = "drain"
    /\ DrainMore(finished, processes)
    /\ queue # << >>
    /\ queue' = Tail(queue)
    /\ IF message.type = MT_PROGRESS
       THEN /\ console' = console \cup
                   {Line("supervisor", message.id, message.data, message.step)}
            /\ UNCHANGED << spc, finished, stderrs, wpc >>
       ELSE /\ finished' = finished + 1
            /\ stderrs' = IF KeepOutput(message, verbose)
                          THEN Append(stderrs, << message.id, message.output >>)
                          ELSE stderrs
            /\ console' = console \cup
                   {Line("supervisor", message.id,
                         IF message.success THEN "PASSED" ELSE "FAILED", 0)}
            /\ IF FailFast(message, fatal)
               THEN /\ wpc' = TerminateAll(wpc)
                    /\ spc' = "replay"
               ELSE /\ wpc' = wpc
                    /\ spc' = IF DrainMore(finished + 1, processes)
                              THEN "drain" ELSE "replay"
    /\ UNCHANGED << flagVars, envVars, killed, project, processes, replayed, exitCode, step,
                    success, log, executed, retcodes, childVars >>

\* mutant: the warning rule is put in front of the error rules
Templates2colorsWarningFirst ==
    << << "warning:", COLOR_YELLOW >>,
       << "error C", COLOR_RED >>,
       << "error:", COLOR_RED >>,
       << "FAILED", COLOR_RED >>,
       << "", COLOR_DEFAULT >> >>

\* main: templates2colors
Templates2colors ==
    << << "error C", COLOR_RED >>,
       << "error:", COLOR_RED >>,
       << "FAILED", COLOR_RED >>,
       << "warning:", COLOR_YELLOW >>,
       << "", COLOR_DEFAULT >> >>

\* main: template in line
Contains(line, template) ==
    template = "" \/ \E k \in 1..Len(line) : line[k] = template

\* main: the loop over templates2colors for one line, from rule k on: the
\* line is printed in the colour of the first rule that matches, and the
\* loop is left
RECURSIVE RenderLine(_, _)
RenderLine(line, k) ==
    IF k > Len(Templates2colors) THEN << >>
    ELSE IF Contains(line, Templates2colors[k][1])
         THEN << [text |-> line, color |-> Templates2colors[k][2]] >>
         ELSE RenderLine(line, k + 1)

\* main: the loop over stderr.splitlines()
RECURSIVE RenderOutput(_)
RenderOutput(output) ==
    IF output = << >> THEN << >>
    ELSE RenderLine(Head(output), 1) \o RenderOutput(Tail(output))

\* main: the replay of the buffered outputs, in the order of stderrs
Replay ==
    /\ spc = "replay"
    /\ replayed' = [k \in 1..Len(stderrs) |->
                       [id |-> stderrs[k][1],
                        lines |-> RenderOutput(stderrs[k][2])]]
    /\ spc' = "join"
    /\ UNCHANGED << flagVars, envVars, killed, project, processes, queue, finished, stderrs,
                    exitCode, console, workerVars, childVars >>

\* main: the exit code main hands to sys.exit
MainResult == 0

\* main: for process in processes: process.join(), then the next project,
\* or return and sys.exit after the last one
Join ==
    /\ spc = "join"
    /\ \A w \in Spawned : WorkerEnded(w)
    /\ IF project < NumProjects
       THEN /\ project' = project + 1
            /\ spc' = "start"
            /\ exitCode' = exitCode
       ELSE /\ project' = project
            /\ spc' = "exited"
            /\ exitCode' = MainResult
    /\ UNCHANGED << flagVars, envVars, killed, processes, queue, finished, stderrs, replayed,
                    console, workerVars, childVars >>

\* ------------------------------------------------------ the specification
Next ==
    \/ StartProject
    \/ ConfigError
    \/ SupInterrupt
    \/ SpawnWorker
    \/ Drain
    \/ Replay
    \/ Join
    \/ \E w \in Compilers : StartStep(w)
    \/ \E w \in Compilers : \E c \in RetCodes : ProcExit(w, c)
    \/ \E w \in Compilers : WdSleep(w)
    \/ \E w \in Compilers : WdKill(w)
    \/ \E w \in Compilers : WdPut(w)
    \/ \E w \in Compilers : \E c \in RetCodes : WaitReturns(w, c)
    \/ \E w \in Compilers : WatchdogReturns(w)
    \/ \E w \in Compilers : PutResult(w)
    \/ \E w \in Compilers : WorkerInterrupt(w)

Spec == Init /\ [][Next]_vars

\* -------------------------------------- the replay of arbitrary outputs
\* the words an output line is made of: the templates of the rule table and
\* a word that matches none
ReplayWords == {"error C", "error:", "FAILED", "warning:", "ok"}
ReplayLines == UNION {[1..n -> ReplayWords] : n \in 0..MaxWords}
ExampleLog ==
    << << "foo", "error:", "bar" >>, << "warning:", "baz" >>, << "ok" >> >>
ReplayOutputs ==
    UNION {[1..n -> ReplayLines] : n \in 0..MaxLines} \cup {ExampleLog}

\* the state at the end of a drain loop in which the first compiler failed
\* in its first step and the others passed, the failed compiler's log
\* holding any of the outputs above
ReplayInit ==
    /\ clean = FALSE
    /\ verbose = FALSE
    /\ fatal = FALSE
    /\ spc = "replay"
    /\ project = NumProjects
    /\ processes = [k \in Compilers |-> k]
    /\ queue = << >>
    /\ finished = NumCompilers
    /\ \E out \in ReplayOutputs :
          /\ stderrs = << << 1, out >> >>
          /\ log = [w \in Compilers |->
                      IF w = 1 THEN out ELSE << << "Testing" >> >>]
    /\ replayed = << >>
    /\ console =
          {[by |-> "supervisor", project |-> NumProjects, id |-> w,
            text |-> IF w = 1 THEN "FAILED" ELSE "PASSED", step |-> 0] :
              w \in Compilers}
    /\ exitCode = -1
    /\ wpc = [w \in Compilers |-> "done"]
    /\ step = [w \in Compilers |-> IF w = 1 THEN 1 ELSE 3]
    /\ success = [w \in Compilers |-> w # 1]
    /\ executed = [w \in Compilers |->
                      IF w = 1 THEN << 1 >> ELSE << 1, 2, 3 >>]
    /\ retcodes = [w \in Compilers |->
                      IF w = 1 THEN << 1 >> ELSE << 0, 0, 0 >>]
    /\ proc = [w \in Compilers |-> NoProc]
    /\ watchdog = [w \in Compilers |-> NoWatchdog]
    /\ wdq = [w \in Compilers |-> << >>]
    /\ killed = [w \in Compilers |-> FALSE]
    /\ osEnviron = BaseEnviron
    /\ wenv = [w \in Compilers |-> BaseEnviron]

ReplayNext == Replay \/ Join

ReplaySpec == ReplayInit /\ [][ReplayNext]_vars

\* ------------------------------------------------- vocabulary of the claims
Last(seq) == seq[Len(seq)]
Range(seq) == {seq[k] : k \in 1..Len(seq)}

\* the supervisor has written the verdict text for compiler w in this project
Shown(w, text) ==
    [by |-> "supervisor", project |-> project, id |-> w, text |-> text,
     step |-> 0] \in console

\* the messages of worker w still on the shared queue
InFlight(w) == {k \in 1..Len(queue) : queue[k].id = w}

\* a step of the program itself: anything but an interrupt or a config error
ProgramStep ==
    \/ StartProject \/ SpawnWorker \/ Drain \/ Replay \/ Join
    \/ \E w \in Compilers :
          \/ StartStep(w) \/ WdSleep(w) \/ WdKill(w) \/ WdPut(w)
          \/ WatchdogReturns(w) \/ PutResult(w)
          \/ \E c \in RetCodes : ProcExit(w, c) \/ WaitReturns(w, c)

\* ------------------------------------------------------------------ C1
\* C1: when the program has exited, its exit code is 0 if and only if every
\* compiler of every project was reported PASSED, and it is 1 as soon as one
\* compiler was reported FAILED (and on a config error or an interrupt).
C1_ExitCodeIffAllPassed ==
    spc = "exited" =>
        /\ exitCode = 0 <=>
              \A p \in Projects : \A w \in Compilers :
                  [by |-> "supervisor", project |-> p, id |-> w,
                   text |-> "PASSED", step |-> 0] \in console
        /\ (\E line \in console : line.text = "FAILED") => exitCode = 1
        /\ (\E line \in console :
                line.text \in {"ScyllaError", "Interrupted by user"})
              => exitCode = 1

\* ------------------------------------------------------------------ C2
\* C2: a worker that ended without a result message (interrupted inside the
\* builder) is still accounted for: when every worker of the project has
\* ended and the supervisor is in the drain loop with nothing left to read,
\* a (synthesized) FAILED verdict has been recorded for that worker.
C2_ResultForCrashedWorker ==
    \A w \in Spawned :
        (/\ spc = "drain"
         /\ queue = << >>
         /\ \A v \in Spawned : WorkerEnded(v)
         /\ wpc[w] = "crashed")
            => Shown(w, "FAILED")

\* ------------------------------------------------------------------ C3
\* C3: the supervisor is never blocked for good in the drain loop: while it
\* is in the loop, either a message is there to read or some worker, command
\* or watchdog can still take a step (so a message can still arrive).
C3_DrainLoopNeverStuck ==
    spc = "drain" => ENABLED ProgramStep

\* ------------------------------------------------------------------ C4
\* C4: once a fatal step i of a worker has returned a non-zero retcode, the
\* worker has started no step after i, no progress message or progress line
\* for a step after i exists, success is False, and every result of that
\* worker (on the queue or rendered) is a failure.
C4_FatalFailureStopsPipeline ==
    \A w \in Compilers : \A i \in 1..Len(retcodes[w]) :
        (Commands(clean)[i].fatal /\ retcodes[w][i] # 0) =>
            /\ \A j \in Range(executed[w]) : j <= i
            /\ wpc[w] \notin {"ready", "running"}
            /\ ~success[w]
            /\ \A k \in InFlight(w) :
                  /\ queue[k].type = MT_PROGRESS => queue[k].step <= i
                  /\ queue[k].type = MT_RESULT => ~queue[k].success
            /\ \A line \in console :
                  (line.id = w /\ line.project = project /\ line.by = "supervisor")
                      => (line.step <= i /\ line.text # "PASSED")

\* C4 witness: a worker failed in a fatal step that is not the last one, put
\* its result and the supervisor rendered FAILED.
C4_Witness ==
    \E w \in Compilers :
        /\ wpc[w] = "done"
        /\ Len(retcodes[w]) < Len(Commands(clean))
        /\ Last(retcodes[w]) # 0
        /\ Shown(w, "FAILED")

\* ------------------------------------------------------------------ C5
\* C5: under the watchdog, a command that does not exit is killed exactly
\* when KILL_TIMEOUT_S one-second sleeps have been done and not before; the
\* killed process has a non-zero returncode, which is what the watchdog puts
\* and what run_command returns, so the worker records a failure; and a
\* polling watchdog never sleeps more than KILL_TIMEOUT_S times and can
\* always take its next step (sleep, kill or put), so it terminates.
C5_WatchdogStep(w) ==
    /\ (proc[w].state = "running" /\ proc'[w].state = "killed")
          => watchdog[w].ticks = KILL_TIMEOUT_S
    /\ proc'[w].state = "killed" => proc'[w].code # 0
    /\ (proc'[w].state = "killed" /\ watchdog'[w].state = "done")
          => wdq'[w] = << proc'[w].code >>
    /\ (proc[w].state = "killed" /\ wpc[w] = "running"
            /\ wpc'[w] \in {"ready", "result"})
          => /\ Last(retcodes'[w]) # 0
             /\ wpc'[w] = "result"
             /\ ~success'[w]
    /\ (Live /\ watchdog[w].state = "polling")
          => /\ watchdog[w].ticks <= KILL_TIMEOUT_S
             /\ ENABLED (WdSleep(w) \/ WdKill(w) \/ WdPut(w))

C5_WatchdogDeadline == [][\A w \in Compilers : C5_WatchdogStep(w)]_vars

\* C5 witness: the watchdog has killed a command at the deadline and put
\* its returncode for the worker.
C5_Witness ==
    \E w \in Compilers :
        /\ proc[w].state = "killed"
        /\ watchdog[w].state = "done"
        /\ watchdog[w].ticks = KILL_TIMEOUT_S
        /\ wdq[w] # << >>
        /\ wpc[w] = "running"

\* ------------------------------------------------------------------ C6
\* C6: under the watchdog, a command that has exited by itself with code c
\* is never killed, the watchdog puts exactly c, run_command returns exactly
\* c, and with c = 0 the step does not fail the pipeline.
C6_PassThroughStep(w) ==
    /\ proc[w].state = "exited" => proc'[w].state # "killed"
    /\ (proc'[w].state = "exited" /\ watchdog'[w].state = "done")
          => wdq'[w] = << proc'[w].code >>
    /\ (proc[w].state = "exited" /\ wpc[w] = "running"
            /\ wpc'[w] \in {"ready", "result"})
          => /\ Last(retcodes'[w]) = proc[w].code
             /\ proc[w].code = 0 => success'[w] = success[w]

C6_WatchdogPassThrough == [][\A w \in Compilers : C6_PassThroughStep(w)]_vars

\* C6 witness: a command exited with 0 before the deadline and the watchdog
\* has put 0 for the worker, which still waits in run_command.
C6_Witness ==
    \E w \in Compilers :
        /\ proc[w] = [state |-> "exited", code |-> 0]
        /\ watchdog[w].state = "done"
        /\ watchdog[w].ticks < KILL_TIMEOUT_S
        /\ wdq[w] = << 0 >>
        /\ wpc[w] = "running"

\* ------------------------------------------------------------------ C7
\* C7: with clean requested, a failing clean step does not end the pipeline;
\* when clean returned non-zero and configure, build and test returned 0,
\* the worker ran the four steps in order, its result is a success and the
\* only verdict the supervisor renders for it is PASSED.
C7_NonFatalCleanFailure ==
    \A w \in Compilers :
        (clean /\ Len(retcodes[w]) >= 1 /\ retcodes[w][1] # 0) =>
            /\ Len(retcodes[w]) = 1 => wpc[w] \notin {"result", "done"}
            /\ (Len(retcodes[w]) = 4
                  /\ \A i \in 2..4 : retcodes[w][i] = 0) =>
                  /\ executed[w] = << 1, 2, 3, 4 >>
                  /\ success[w]
                  /\ \A k \in InFlight(w) :
                        queue[k].type = MT_RESULT => queue[k].success
                  /\ ~Shown(w, "FAILED")
                  /\ (wpc[w] = "done" /\ InFlight(w) = {} /\ spc = "drain")
                        => Shown(w, "PASSED")

\* C7 witness: clean failed, the three other steps returned 0 and the
\* supervisor rendered PASSED.
C7_Witness ==
    \E w \in Compilers :
        /\ clean
        /\ retcodes[w] = << 1, 0, 0, 0 >>
        /\ Shown(w, "PASSED")

\* ------------------------------------------------------------------ C8
\* C8: in fail-fast mode, once the supervisor has rendered a FAILED verdict
\* it is out of the drain loop, and after the loop no worker process of the
\* project is alive.
C8_FailFastStopsWorkers ==
    (fatal /\ \E w \in Spawned : Shown(w, "FAILED")) =>
        /\ spc # "drain"
        /\ spc \in {"replay", "join"} => \A w \in Spawned : ~WorkerRunning(w)

\* C8 witness: fail-fast mode, a FAILED verdict, and a sibling that was
\* terminated while it ran.
C8_Witness ==
    /\ fatal
    /\ spc = "replay"
    /\ \E w \in Spawned : Shown(w, "FAILED")
    /\ \E w \in Spawned : wpc[w] = "terminated"

\* ------------------------------------------------------------------ C9
\* C9: without fail-fast no worker is ever terminated by the supervisor, a
\* worker that reached the end of its pipeline got there by its own
\* retcodes alone (all steps run, or its own fatal failure), and the drain
\* loop is left only with one result consumed per spawned worker.
C9_FailureIsolation ==
    ~fatal =>
        /\ \A w \in Compilers : wpc[w] # "terminated"
        /\ \A w \in Compilers : wpc[w] \in {"result", "done"} =>
              IF success[w]
              THEN executed[w] = [i \in 1..Len(Commands(clean)) |-> i]
              ELSE /\ Last(retcodes[w]) # 0
                   /\ Commands(clean)[Len(retcodes[w])].fatal
        /\ spc \in {"replay", "join"} =>
              /\ finished = Len(processes)
              /\ \A w \in Spawned :
                    /\ wpc[w] = "done"
                    /\ Shown(w, "PASSED") \/ Shown(w, "FAILED")

\* C9 witness: without fail-fast, one worker's failure has been rendered
\* while a sibling is still running a step, and goes on.
C9_Witness ==
    /\ ~fatal
    /\ \E w1, w2 \in Spawned :
          /\ w1 # w2
          /\ Shown(w1, "FAILED")
          /\ wpc[w2] = "running"

\* ------------------------------------------------------------------ C10
\* C10: the log of a worker holds the output of every step the worker has
\* run so far, and so does the output carried by its result message.
C10_LogAccumulates ==
    \A w \in Compilers :
        /\ \A i \in Range(executed[w]) :
              << Commands(clean)[i].status >> \in Range(log[w])
        /\ \A k \in InFlight(w) :
              queue[k].type = MT_RESULT =>
                  \A i \in Range(executed[w]) :
                      << Commands(clean)[i].status >> \in Range(queue[k].output)

\* ------------------------------------------------------------------ C11
\* the run came to its end by itself (no interrupt, no config error) after
\* every compiler, without clean and without fail-fast, had configure and
\* build return 0 and the test command killed at the deadline
C11_Scenario ==
    /\ ~clean
    /\ ~fatal
    /\ spc = "exited"
    /\ \A line \in console :
          line.text \notin {"ScyllaError", "Interrupted by user"}
    /\ \A w \in Compilers :
          /\ wpc[w] = "done"
          /\ killed[w]
          /\ Len(retcodes[w]) = 3
          /\ retcodes[w][1] = 0
          /\ retcodes[w][2] = 0

\* C11: when the test step of every compiler ran past the deadline (configure
\* and build having succeeded), every compiler is reported FAILED, the output
\* carried by its result holds a watchdog-kill marker, and the exit code of
\* the run is 1.
C11_DeadlineExceededRun ==
    C11_Scenario =>
        /\ \A w \in Compilers :
              /\ Shown(w, "FAILED")
              /\ \E k \in 1..Len(stderrs) :
                    /\ stderrs[k][1] = w
                    /\ << "Killed by watchdog" >> \in Range(stderrs[k][2])
        /\ exitCode = 1

\* ------------------------------------------------------------------ C12
\* the severity the rule table gives a line, first match first: error for
\* 'error C', 'error:' or 'FAILED', else warning for 'warning:', else default
C12_Severity(line) ==
    IF \E word \in Range(line) : word \in {"error C", "error:", "FAILED"}
    THEN COLOR_RED
    ELSE IF "warning:" \in Range(line) THEN COLOR_YELLOW ELSE COLOR_DEFAULT

\* C12: after the replay, every line of every buffered output has been
\* printed exactly once, in the order of the output, in the colour of the
\* first rule of the table that matches it; the example output is printed
\* as error, warning, default.
C12_FirstMatchWins ==
    spc \in {"join", "exited"} =>
        /\ Len(replayed) = Len(stderrs)
        /\ \A k \in 1..Len(stderrs) :
              LET out == stderrs[k][2]
                  printed == replayed[k].lines
              IN  /\ Len(printed) = Len(out)
                  /\ \A j \in 1..Len(out) :
                        /\ printed[j].text = out[j]
                        /\ printed[j].color = C12_Severity(out[j])
                  /\ out = ExampleLog =>
                        [j \in 1..3 |-> printed[j].color]
                            = << COLOR_RED, COLOR_YELLOW, COLOR_DEFAULT >>

\* C12 witness: the example output has been replayed as error, warning,
\* default.
C12_Witness ==
    /\ spc = "join"
    /\ stderrs = << << 1, ExampleLog >> >>
    /\ Len(replayed) = 1
    /\ [j \in 1..Len(replayed[1].lines) |-> replayed[1].lines[j].color]
          = << COLOR_RED, COLOR_YELLOW, COLOR_DEFAULT >>

\* ------------------------------------------------------------------ C13
\* the output of compiler w is buffered for the replay
C13_Buffered(w) == \E k \in 1..Len(stderrs) : stderrs[k][1] = w

\* from the drain loop to the join: a compiler's output is buffered exactly
\* when its result has been consumed and it failed or verbose is set, and
\* it is buffered once
C13_Policy ==
    spc \in {"drain", "replay", "join"} =>
        /\ \A w \in Spawned :
              C13_Buffered(w) <=>
                  \/ Shown(w, "FAILED")
                  \/ (verbose /\ Shown(w, "PASSED"))
        /\ \A k1, k2 \in 1..Len(stderrs) :
              stderrs[k1][1] = stderrs[k2][1] => k1 = k2

\* C13: the output of a consumed result is buffered if and only if the
\* result is a failure or verbose is set (a success is dropped without
\* verbose); it is appended to the buffer when the result is consumed, so
\* the buffer is in the order of consumption; and the replay happens in one
\* step after the drain loop, printing every buffered output once, in the
\* order of the buffer.
C13_Step ==
    /\ C13_Policy'
    /\ stderrs' # stderrs =>
          \/ stderrs' = << >>
          \/ /\ spc = "drain"
             /\ Head(queue).type = MT_RESULT
             /\ stderrs' = Append(stderrs,
                                  << Head(queue).id, Head(queue).output >>)
    /\ replayed' # replayed =>
          /\ spc = "replay"
          /\ spc' = "join"
          /\ Len(replayed') = Len(stderrs)
          /\ \A k \in 1..Len(stderrs) :
                /\ replayed'[k].id = stderrs[k][1]
                /\ [j \in 1..Len(replayed'[k].lines) |->
                        replayed'[k].lines[j].text] = stderrs[k][2]

C13_ReplayPolicy == [][C13_Step]_vars

\* C13 witness: without verbose, one compiler passed and one failed, and the
\* replay has printed the output of the failed one only.
C13_Witness ==
    /\ ~verbose
    /\ spc = "join"
    /\ \E w1, w2 \in Spawned :
          /\ Shown(w1, "PASSED")
          /\ Shown(w2, "FAILED")
          /\ Len(replayed) = 1
          /\ replayed[1].id = w2
          /\ replayed[1].lines # << >>

\* ------------------------------------------------------------------ C14
\* the pipeline of worker w has run to its end
C14_PipelineOver(w) == wpc[w] \in {"result", "done"}

C15_ReadSteps(w) ==
    {line.step : line \in {l \in console :
        l.by = "supervisor" /\ l.project = project /\ l.id = w /\ l.step > 0}}

\* C15: while the supervisor works on a project, from the first spawn to
\* the join: in the order the supervisor reads the queue (what it has read, then
\* what is on the queue from the head on), the progress messages of one
\* worker have strictly increasing step numbers, the progress message of a
\* step is put before the command of the step exists, and the result of
\* the worker comes after its last progress message and is its last
\* message: nothing of the worker is on the queue behind its result, or
\* left on the queue once its verdict has been read.
C15_EventOrder ==
    spc \in {"spawn", "drain", "replay", "join"} =>
    \A w \in Spawned :
        /\ \A k1, k2 \in InFlight(w) :
              k1 < k2 =>
                 /\ queue[k1].type = MT_PROGRESS
                 /\ queue[k2].type = MT_PROGRESS
                       => queue[k1].step < queue[k2].step
        /\ \A k \in InFlight(w) :
              queue[k].type = MT_PROGRESS
                 => \A n \in C15_ReadSteps(w) : n < queue[k].step
        /\ (Shown(w, "PASSED") \/ Shown(w, "FAILED")) => InFlight(w) = {}
        /\ \A n \in Range(executed[w]) :
              \/ n \in C15_ReadSteps(w)
              \/ \E k \in InFlight(w) :
                    queue[k].type = MT_PROGRESS /\ queue[k].step = n

\* C15 witness: the supervisor has read the first progress message of a
\* worker, and the second one is at the head of the queue with the result
\* of the same worker behind it.
C15_Witness ==
    \E w \in Spawned :
        /\ Len(queue) >= 2
        /\ 1 \in C15_ReadSteps(w)
        /\ queue[1].id = w
        /\ queue[1].type = MT_PROGRESS
        /\ queue[1].step = 2
        /\ queue[2].id = w
        /\ queue[2].type = MT_RESULT

\* ------------------------------------------------------------------ C16
\* C16: a worker the supervisor has terminated in fail-fast mode has no
\* step command and no watchdog still running.
C16_TerminatedTreeGone ==
    \A w \in Spawned :
        wpc[w] = "terminated" =>
            /\ proc[w].state # "running"
            /\ watchdog[w].state # "polling"

\* ------------------------------------------------------------------ C17
\* C17: every line on the console was written by the supervisor process; no
\* worker and no watchdog writes to the console.
C17_OnlySupervisorWrites ==
    \A line \in console : line.by = "supervisor"

\* ------------------------------------------------------------------ C18
\* between two steps of a worker nothing of the earlier step is left, and a
\* watchdog exists only next to the command of a step with a deadline
C18_OneAtATime ==
    \A w \in Compilers :
        /\ wpc[w] \in {"idle", "ready", "result", "done"} =>
              proc[w] = NoProc /\ watchdog[w] = NoWatchdog
        /\ watchdog[w].state # "none" =>
              /\ proc[w].state # "none"
              /\ CurrentCommand(w).timeout >= 0
        /\ Len(executed[w]) - Len(retcodes[w]) \in {0, 1}

\* C18: the steps of a worker are strictly sequential. A worker starts the
\* command of a step only when it has no command and no watchdog and every
\* step it started has returned, and the step it starts is the next one; a
\* step returns only when its command has terminated: by exiting, or, under
\* the watchdog, by exiting or by being killed, the watchdog having finished.
C18_Step ==
    /\ C18_OneAtATime'
    /\ \A w \in Compilers :
          /\ (executed'[w] # executed[w] /\ executed'[w] # << >>) =>
                /\ proc[w] = NoProc
                /\ watchdog[w] = NoWatchdog
                /\ Len(retcodes[w]) = Len(executed[w])
                /\ executed'[w] = Append(executed[w], Len(executed[w]) + 1)
                /\ proc'[w].state = "running"
          /\ Len(retcodes'[w]) > Len(retcodes[w]) =>
                /\ proc'[w] = NoProc
                /\ watchdog'[w] = NoWatchdog
                /\ IF CurrentCommand(w).timeout >= 0
                   THEN /\ proc[w].state \in {"exited", "killed"}
                        /\ watchdog[w].state = "done"
                   ELSE /\ proc[w].state = "running"
                        /\ watchdog[w] = NoWatchdog

C18_StepsSequential == [][C18_Step]_vars

\* C18 witness: a worker has run its three steps one after the other, the
\* last one ended by the kill of the watchdog, and nothing of it is left.
C18_Witness ==
    /\ ~clean
    /\ \E w \in Spawned :
          /\ executed[w] = << 1, 2, 3 >>
          /\ retcodes[w] = << 0, 0, KILL_RETURNCODE >>
          /\ killed[w]
          /\ proc[w] = NoProc
          /\ watchdog[w] = NoWatchdog

\* ------------------------------------------------------------------ C19
\* C19: the environment a worker is started with is made of the base
\* environment of the program and of the PATH entries and the variables of
\* its own compiler only; nothing of the compilers spawned before it is in
\* it.
C19_OwnEnvironOnly ==
    \A w \in Spawned : wenv[w] = SetEnviron(BaseEnviron, w)

\* ------------------------------------------------------------------ C20
\* the worker of compiler w has printed the notice in this project
C20_Noticed(w) ==
    \E line \in console :
        /\ line.by = "worker"
        /\ line.project = project
        /\ line.id = w
        /\ line.text = "Killed by watchdog"

\* C20: once the step with a deadline of a worker has returned, the notice
\* 'Killed by watchdog' has been printed for it if and only if the watchdog
\* killed the command of that step; and before that no notice is printed.
C20_NoticeIffKilled ==
    \A w \in Spawned :
        IF Len(retcodes[w]) = Len(Commands(clean))
        THEN C20_Noticed(w) <=> killed[w]
        ELSE ~C20_Noticed(w)

====
